---- MODULE Spec2Model ----
(***************************************************************************)
(* HemoDrop Detector backend (src/backend/main.py): the hemorrhage         *)
(* classifier, the alert registry, the monitoring sessions, the background *)
(* sampling loop and the WebSocket connection manager, as a state machine. *)
(*                                                                         *)
(* Volumes are whole millilitres and rates whole mL/min; the clock `now`   *)
(* counts whole seconds, which is what int(time.time()) keeps of it.       *)
(***************************************************************************)
EXTENDS Integers, Sequences, FiniteSets, TLC

(***************************************************************************)
(* Bounds of the model.                                                    *)
(***************************************************************************)
MaxLoss == 1100
MaxRate == 60
MaxPrev == 4
MaxTime == 1
MaxReadings == 2
MaxSessions == 2
MaxTasks == 1
MaxDelivered == 2

(***************************************************************************)
(* Program constants.                                                      *)
(***************************************************************************)
NORMAL_MAX == 100
MINOR_MAX == 250
MODERATE_MAX == 500
MAJOR_MAX == 1000
RATE_EMERGENCY == 50
RATE_CRITICAL == 20
RATE_WARNING == 10
TREND_READINGS == 3
TREND_MINUTES == 15
TREND_RATE == 15
\* timedelta(hours=24), in seconds
RETENTION_SECONDS == 86400

\* HemorrhageLevel and AlertType are str enums: a member's value is its string.
HemorrhageLevel == {"normal", "minor", "moderate", "major", "critical"}
AlertType == {"info", "warning", "critical", "emergency"}

\* MonitoringState._initialize_sample_data: the two registered patients.
Patients == {"patient_001", "patient_002"}

\* Python's None (Optional[...] results).
None == [none |-> TRUE]

\* Optional[datetime] = None
NoTime == -1

\* The loop's session_id before it has reached a session.
NoSession == <<>>

VARIABLES
    now,                \* the wall clock, in seconds
    readings_history,   \* state.readings_history: patient_id -> list of readings
    active_sessions,    \* state.active_sessions, in dict (insertion) order
    active_alerts,      \* state.active_alerts: alert_id -> AlertMessage
    source_ready,       \* whether the reading source returns a reading
    loop,               \* continuous_monitoring_task: where it is
    active_connections, \* manager.active_connections
    accepted,           \* the WebSockets that have been accepted so far
    broken,             \* the WebSockets whose transport has failed
    tasks,              \* the broadcasts in progress, one per suspended handler
    delivered,          \* per WebSocket, the messages sent to it, in order
    response,           \* the last HTTP response sent
    call                \* the last direct call of a classifier method

monitorvars == <<readings_history, active_sessions, source_ready, loop>>
hubvars == <<active_connections, accepted, broken, tasks, delivered>>
sysvars == <<now, monitorvars, active_alerts, hubvars, response>>
vars == <<sysvars, call>>

(***************************************************************************)
(* HemorrhageClassifier                                                    *)
(***************************************************************************)
BloodLossReading(pid, ts, loss, rate) ==
    [patient_id |-> pid, timestamp |-> ts, blood_loss_ml |-> loss,
     rate_ml_per_min |-> rate]

classify_blood_loss_exclusive(blood_loss_ml) ==
    IF blood_loss_ml < NORMAL_MAX THEN "normal"
    ELSE IF blood_loss_ml < MINOR_MAX THEN "minor"
    ELSE IF blood_loss_ml < MODERATE_MAX THEN "moderate"
    ELSE IF blood_loss_ml < MAJOR_MAX THEN "major"
    ELSE "critical"

classify_blood_loss(blood_loss_ml) ==
    IF blood_loss_ml <= NORMAL_MAX THEN "normal"
    ELSE IF blood_loss_ml <= MINOR_MAX THEN "minor"
    ELSE IF blood_loss_ml <= MODERATE_MAX THEN "moderate"
    ELSE IF blood_loss_ml <= MAJOR_MAX THEN "major"
    ELSE "critical"

assess_bleeding_rate_any_level(rate_ml_per_min, current_level) ==
    IF rate_ml_per_min > RATE_EMERGENCY THEN "emergency"
    ELSE IF rate_ml_per_min > RATE_CRITICAL THEN "critical"
    ELSE IF rate_ml_per_min > RATE_WARNING THEN "warning"
    ELSE "info"

assess_bleeding_rate(rate_ml_per_min, current_level) ==
    IF rate_ml_per_min > RATE_EMERGENCY THEN "emergency"
    ELSE IF rate_ml_per_min > RATE_CRITICAL /\ current_level \in {"moderate", "major"}
         THEN "critical"
    ELSE IF rate_ml_per_min > RATE_WARNING THEN "warning"
    ELSE "info"

\* previous_readings[-3:]
LastReadings(previous_readings) ==
    SubSeq(previous_readings, Len(previous_readings) - TREND_READINGS + 1,
           Len(previous_readings))

\* blood_loss_trend = [r.blood_loss_ml for r in recent_readings] + [reading.blood_loss_ml]
BloodLossTrend(reading, previous_readings) ==
    [i \in 1..TREND_READINGS |-> LastReadings(previous_readings)[i].blood_loss_ml]
        \o <<reading.blood_loss_ml>>

\* (blood_loss_trend[-1] - blood_loss_trend[0]) / 15 > 15, the division being
\* Python's true division: d / 15 > 15 exactly when d > 15 * 15.
RapidEscalation_oldest(reading, previous_readings) ==
    /\ Len(previous_readings) >= TREND_READINGS
    /\ reading.blood_loss_ml - previous_readings[1].blood_loss_ml
           > TREND_RATE * TREND_MINUTES

RapidEscalation(reading, previous_readings) ==
    /\ Len(previous_readings) >= TREND_READINGS
    /\ LET blood_loss_trend == BloodLossTrend(reading, previous_readings)
       IN  /\ Len(blood_loss_trend) >= 2
           /\ blood_loss_trend[Len(blood_loss_trend)] - blood_loss_trend[1]
                  > TREND_RATE * TREND_MINUTES

\* The messages table of should_trigger_alert.
Messages(level) ==
    CASE level = "normal" -> "Normal postpartum bleeding"
      [] level = "minor" -> "Minor hemorrhage detected - monitor closely"
      [] level = "moderate" -> "Moderate hemorrhage - consider intervention"
      [] level = "major" -> "MAJOR HEMORRHAGE - immediate intervention required"
      [] level = "critical" -> "CRITICAL HEMORRHAGE - emergency response needed"

\* f"alert_{reading.patient_id}_{int(time.time())}"
AlertId(pid, t) == <<"alert", pid, t>>

AlertCondition_and(current_level, alert_type) ==
    current_level # "normal" /\ alert_type \in {"critical", "emergency"}

\* line 204: whether an alert is generated
AlertCondition(current_level, alert_type) ==
    current_level # "normal" \/ alert_type \in {"critical", "emergency"}

should_trigger_alert_by_severity(reading, previous_readings, t) ==
    LET current_level == classify_blood_loss(reading.blood_loss_ml)
        rate_type == assess_bleeding_rate(reading.rate_ml_per_min, current_level)
        alert_type == IF RapidEscalation(reading, previous_readings)
                      THEN "emergency" ELSE rate_type
    IN  IF AlertCondition(current_level, alert_type)
        THEN [alert_id |-> AlertId(reading.patient_id, t),
              patient_id |-> reading.patient_id,
              alert_type |-> alert_type,
              message |-> IF alert_type = "emergency"
                          THEN Messages("critical") ELSE Messages(current_level),
              hemorrhage_level |-> current_level,
              blood_loss_ml |-> reading.blood_loss_ml,
              timestamp |-> reading.timestamp,
              acknowledged |-> FALSE]
        ELSE None

\* should_trigger_alert, called at clock reading t
should_trigger_alert(reading, previous_readings, t) ==
    LET current_level == classify_blood_loss(reading.blood_loss_ml)
        rate_type == assess_bleeding_rate(reading.rate_ml_per_min, current_level)
        alert_type == IF RapidEscalation(reading, previous_readings)
                      THEN "emergency" ELSE rate_type
    IN  IF AlertCondition(current_level, alert_type)
        THEN [alert_id |-> AlertId(reading.patient_id, t),
              patient_id |-> reading.patient_id,
              alert_type |-> alert_type,
              message |-> Messages(current_level),
              hemorrhage_level |-> current_level,
              blood_loss_ml |-> reading.blood_loss_ml,
              timestamp |-> reading.timestamp,
              acknowledged |-> FALSE]
        ELSE None

(***************************************************************************)
(* Inputs of the requests and of the reading source.                       *)
(***************************************************************************)
\* Patient ids a request may name: the registered ones and an unknown one.
PatientInputs == Patients \cup {"patient_999"}

\* <<blood_loss_ml, rate_ml_per_min>> of a submitted or sampled reading:
\* normal/warning, normal/emergency, moderate/info.
ReadingInputs == {<<50, 15>>, <<50, 60>>, <<300, 0>>}

\* The WebSocket objects that may connect.
Sockets == {"ws1", "ws2", "ws3"}

\* f"session_{patient_id}_{int(time.time())}"
SessionId(pid, t) == <<"session", pid, t>>

SessionIdInputs == {SessionId(pid, t) : pid \in Patients, t \in 0..MaxTime}
AlertIdInputs == {AlertId(pid, t) : pid \in Patients, t \in 0..MaxTime}

(***************************************************************************)
(* Helpers: Python dicts and lists.                                        *)
(***************************************************************************)
\* d[k] = v on a dict held as a function.
DictPut(d, k, v) ==
    IF k \in DOMAIN d THEN [d EXCEPT ![k] = v] ELSE d @@ (k :> v)

SessionKeys == {active_sessions[i].session_id : i \in 1..Len(active_sessions)}

SessionIndex(sid) ==
    CHOOSE i \in 1..Len(active_sessions) : active_sessions[i].session_id = sid

\* list.remove(x) guarded by `x in list`: the first occurrence goes.
ListRemove(list, x) ==
    IF \E i \in 1..Len(list) : list[i] = x
    THEN LET k == CHOOSE i \in 1..Len(list) :
                     /\ list[i] = x
                     /\ \A j \in 1..(i - 1) : list[j] # x
         IN  SubSeq(list, 1, k - 1) \o SubSeq(list, k + 1, Len(list))
    ELSE list

RECURSIVE RemoveAll(_, _)
\* for connection in disconnected: self.disconnect(connection)
RemoveAll(list, gone) ==
    IF gone = <<>> THEN list
    ELSE RemoveAll(ListRemove(list, Head(gone)), Tail(gone))

Max(a, b) == IF a >= b THEN a ELSE b

Min(a, b) == IF a <= b THEN a ELSE b

\* The number of readings stored since the clock started at 0, over all
\* patients (a history may hold readings taken before, with an earlier
\* timestamp).
TotalReadings ==
    LET Stored(p) == Cardinality({n \in 1..Len(readings_history[p]) :
                                     readings_history[p][n].timestamp >= 0})
        RECURSIVE Sum(_)
        Sum(ps) == IF ps = {} THEN 0
                   ELSE LET p == CHOOSE q \in ps : TRUE
                        IN  Stored(p) + Sum(ps \ {p})
    IN  Sum(Patients)

\* The status codes a handler answers with: 200, HTTPException(404) and the
\* 500 of an exception that leaves the handler.  Pending: no answer yet, the
\* handler is suspended in an await.
StatusCodes == {200, 404, 500}
Pending == 0

Response(op, arg, status) == [op |-> op, arg |-> arg, status |-> status]

\* The client of request op(arg) gets the handler's answer, if there is one yet.
Answer(op, arg, status) ==
    IF status = Pending THEN UNCHANGED response
    ELSE response' = Response(op, arg, status)

(***************************************************************************)
(* json.dumps of an event.  The "reading" and "alert" events carry         *)
(* reading.dict() and alert.dict(), whose timestamp is a datetime object:  *)
(* json.dumps has no encoder for it and raises TypeError.  The             *)
(* "alert_acknowledged" event carries a string only.                       *)
(***************************************************************************)
Event(type, data) == [type |-> type, data |-> data]

json_dumps_raises(event) == "timestamp" \in DOMAIN event.data

(***************************************************************************)
(* ConnectionManager                                                       *)
(***************************************************************************)
\* connect: accept, then append to the list
Connect(ws) ==
    /\ ws \notin accepted
    /\ accepted' = accepted \cup {ws}
    /\ active_connections' = Append(active_connections, ws)
    /\ UNCHANGED <<now, monitorvars, active_alerts, broken, tasks, delivered,
                   response, call>>

\* The transport of an accepted WebSocket fails (the client has gone away).
Break(ws) ==
    /\ ws \in accepted \ broken
    /\ broken' = broken \cup {ws}
    /\ UNCHANGED <<now, monitorvars, active_alerts, active_connections, accepted,
                   tasks, delivered, response, call>>

\* websocket_endpoint: receive_text raises WebSocketDisconnect; disconnect
Disconnect(ws) ==
    /\ ws \in broken
    /\ \E i \in 1..Len(active_connections) : active_connections[i] = ws
    /\ active_connections' = ListRemove(active_connections, ws)
    /\ UNCHANGED <<now, monitorvars, active_alerts, accepted, broken, tasks,
                   delivered, response, call>>

\* broadcast, up to its first await: with no connection the loop body never runs
\* and the caller goes on at once; otherwise the caller is suspended in
\* send_text to the first connection.
BroadcastStart(message, op, arg, status) ==
    IF active_connections = <<>>
    THEN /\ status = 200
         /\ UNCHANGED tasks
    ELSE /\ status = Pending
         /\ tasks' = Append(tasks, [message |-> message,
                                    connection |-> active_connections[1],
                                    index |-> 1,
                                    disconnected |-> <<>>,
                                    op |-> op, arg |-> arg])

BroadcastResume_abort(k, status) ==
    /\ k \in 1..Len(tasks)
    /\ LET task == tasks[k]
           raised == task.connection \in broken
       IN  /\ delivered' =
                 IF raised THEN delivered
                 ELSE [delivered EXCEPT ![task.connection] = Append(@, task.message)]
           /\ IF ~raised /\ task.index < Len(active_connections)
              THEN /\ tasks' = [tasks EXCEPT ![k] =
                          [task EXCEPT !.connection = active_connections[task.index + 1],
                                       !.index = task.index + 1]]
                   /\ status = Pending
              ELSE /\ tasks' = SubSeq(tasks, 1, k - 1) \o SubSeq(tasks, k + 1, Len(tasks))
                   /\ status = IF raised THEN 500 ELSE 200
           /\ UNCHANGED active_connections
    /\ UNCHANGED <<now, monitorvars, active_alerts, accepted, broken, call>>

\* broadcast, from the return of one send_text to the next await or to the end:
\* the send has delivered the message or raised; the list iterator then yields
\* the element at its index in the list as it is now, or the loop ends, the
\* connections that raised are removed and the handler returns.
BroadcastResume(k, status) ==
    /\ k \in 1..Len(tasks)
    /\ LET task == tasks[k]
           raised == task.connection \in broken
           disconnected == IF raised THEN Append(task.disconnected, task.connection)
                           ELSE task.disconnected
       IN  /\ delivered' =
                 IF raised THEN delivered
                 ELSE [delivered EXCEPT ![task.connection] = Append(@, task.message)]
           /\ IF task.index < Len(active_connections)
              THEN /\ tasks' = [tasks EXCEPT ![k] =
                          [task EXCEPT !.connection = active_connections[task.index + 1],
                                       !.index = task.index + 1,
                                       !.disconnected = disconnected]]
                   /\ UNCHANGED active_connections
                   /\ status = Pending
              ELSE /\ tasks' = SubSeq(tasks, 1, k - 1) \o SubSeq(tasks, k + 1, Len(tasks))
                   /\ active_connections' = RemoveAll(active_connections, disconnected)
                   /\ status = 200
    /\ UNCHANGED <<now, monitorvars, active_alerts, accepted, broken, call>>

(***************************************************************************)
(* The alert endpoints                                                     *)
(***************************************************************************)
AcknowledgeAlert_keyerror(alert_id, status) ==
    /\ IF alert_id \notin DOMAIN active_alerts
       THEN /\ status = 500
            /\ UNCHANGED <<active_alerts, tasks>>
       ELSE /\ Len(tasks) < MaxTasks
            /\ \A ws \in Sockets : Len(delivered[ws]) + Len(tasks) < MaxDelivered
            /\ active_alerts' = [active_alerts EXCEPT ![alert_id].acknowledged = TRUE]
            /\ BroadcastStart(Event("alert_acknowledged", [alert_id |-> alert_id]),
                              "acknowledge_alert", alert_id, status)
    /\ UNCHANGED <<now, monitorvars, active_connections, accepted, broken,
                   delivered, call>>

AcknowledgeAlert_toggle(alert_id, status) ==
    /\ IF alert_id \notin DOMAIN active_alerts
       THEN /\ status = 404
            /\ UNCHANGED <<active_alerts, tasks>>
       ELSE /\ Len(tasks) < MaxTasks
            /\ \A ws \in Sockets : Len(delivered[ws]) + Len(tasks) < MaxDelivered
            /\ active_alerts' = [active_alerts EXCEPT ![alert_id].acknowledged = ~@]
            /\ BroadcastStart(Event("alert_acknowledged", [alert_id |-> alert_id]),
                              "acknowledge_alert", alert_id, status)
    /\ UNCHANGED <<now, monitorvars, active_connections, accepted, broken,
                   delivered, call>>

\* POST /alerts/{alert_id}/acknowledge
AcknowledgeAlert(alert_id, status) ==
    /\ IF alert_id \notin DOMAIN active_alerts
       THEN /\ status = 404
            /\ UNCHANGED <<active_alerts, tasks>>
       ELSE /\ Len(tasks) < MaxTasks
            /\ \A ws \in Sockets : Len(delivered[ws]) + Len(tasks) < MaxDelivered
            /\ active_alerts' = [active_alerts EXCEPT ![alert_id].acknowledged = TRUE]
            /\ ~json_dumps_raises(Event("alert_acknowledged", [alert_id |-> alert_id]))
            /\ BroadcastStart(Event("alert_acknowledged", [alert_id |-> alert_id]),
                              "acknowledge_alert", alert_id, status)
    /\ UNCHANGED <<now, monitorvars, active_connections, accepted, broken,
                   delivered, call>>

(***************************************************************************)
(* The reading and monitoring endpoints                                    *)
(***************************************************************************)
\* POST /patients/{patient_id}/readings.  The reading and, if one is raised,
\* the alert are stored; json.dumps of the first event to broadcast then
\* raises, and the request ends in a 500 response.
AddReading(patient_id, loss, rate, status) ==
    /\ IF patient_id \notin Patients
       THEN /\ status = 404
            /\ UNCHANGED <<readings_history, active_alerts>>
       ELSE /\ TotalReadings < MaxReadings
            /\ LET reading == BloodLossReading(patient_id, now, loss, rate)
                   history == Append(readings_history[patient_id], reading)
                   previous_readings == SubSeq(history, 1, Len(history) - 1)
                   alert == should_trigger_alert(reading, previous_readings, now)
               IN  /\ readings_history' =
                         [readings_history EXCEPT ![patient_id] = history]
                   /\ IF alert # None
                      THEN /\ active_alerts' = DictPut(active_alerts, alert.alert_id, alert)
                           /\ json_dumps_raises(Event("alert", alert))
                      ELSE /\ UNCHANGED active_alerts
                           /\ json_dumps_raises(Event("reading", reading))
                   /\ status = 500
    /\ UNCHANGED <<now, active_sessions, source_ready, loop, hubvars, call>>

MonitoringSession(session_id, patient_id, start_time) ==
    [session_id |-> session_id, patient_id |-> patient_id,
     start_time |-> start_time, end_time |-> NoTime, is_active |-> TRUE,
     total_readings |-> 0, max_blood_loss_ml |-> 0,
     max_hemorrhage_level |-> "normal"]

StartMonitoring_unchecked(patient_id, status) ==
    /\ LET session_id == SessionId(patient_id, now)
           session == MonitoringSession(session_id, patient_id, now)
       IN  /\ session_id \notin SessionKeys => Len(active_sessions) < MaxSessions
           /\ active_sessions' =
                 IF session_id \in SessionKeys
                 THEN [active_sessions EXCEPT ![SessionIndex(session_id)] = session]
                 ELSE Append(active_sessions, session)
           /\ status = 200
    /\ UNCHANGED <<now, readings_history, source_ready, loop, active_alerts,
                   hubvars, call>>

\* POST /monitoring/start/{patient_id}.  state.active_sessions[session_id] =
\* session: a new key goes to the end of the dict, an existing key keeps its
\* place and gets the new session.
StartMonitoring(patient_id, status) ==
    /\ IF patient_id \notin Patients
       THEN /\ status = 404
            /\ UNCHANGED active_sessions
       ELSE LET session_id == SessionId(patient_id, now)
                session == MonitoringSession(session_id, patient_id, now)
            IN  /\ session_id \notin SessionKeys => Len(active_sessions) < MaxSessions
                /\ active_sessions' =
                      IF session_id \in SessionKeys
                      THEN [active_sessions EXCEPT ![SessionIndex(session_id)] = session]
                      ELSE Append(active_sessions, session)
                /\ status = 200
    /\ UNCHANGED <<now, readings_history, source_ready, loop, active_alerts,
                   hubvars, call>>

\* POST /monitoring/stop/{session_id}
StopMonitoring(session_id, status) ==
    /\ IF session_id \notin SessionKeys
       THEN /\ status = 404
            /\ UNCHANGED active_sessions
       ELSE /\ active_sessions' =
                  [active_sessions EXCEPT ![SessionIndex(session_id)] =
                      [@ EXCEPT !.end_time = now, !.is_active = FALSE]]
            /\ status = 200
    /\ UNCHANGED <<now, readings_history, source_ready, loop, active_alerts,
                   hubvars, call>>

(***************************************************************************)
(* continuous_monitoring_task                                              *)
(***************************************************************************)
\* The order of the str values of HemorrhageLevel, which is what
\* current_level.value > session.max_hemorrhage_level.value compares:
\* "critical" < "major" < "minor" < "moderate" < "normal".
ValueRank(level) ==
    CASE level = "critical" -> 1
      [] level = "major" -> 2
      [] level = "minor" -> 3
      [] level = "moderate" -> 4
      [] level = "normal" -> 5

ValueGreater(a, b) == ValueRank(a) > ValueRank(b)

Sampleable_ignoring_source ==
    {i \in 1..Len(active_sessions) : active_sessions[i].is_active}

\* The sessions a cycle gets a reading for if it reaches them: the active
\* ones, while the reading source returns readings.
Sampleable ==
    {i \in 1..Len(active_sessions) :
        active_sessions[i].is_active /\ source_ready}

Sample_unsliced(i, loss, rate) ==
    LET session == active_sessions[i]
        patient_id == session.patient_id
        reading == BloodLossReading(patient_id, now, loss, rate)
        history == Append(readings_history[patient_id], reading)
        current_level == classify_blood_loss(loss)
    IN  [reading |-> reading,
         history |-> history,
         session |-> [session EXCEPT
                         !.total_readings = @ + 1,
                         !.max_blood_loss_ml = Max(@, loss),
                         !.max_hemorrhage_level =
                             IF ValueGreater(current_level, @)
                             THEN current_level ELSE @],
         alert |-> should_trigger_alert(reading, history, now)]

\* The body of the for loop for the session at index i and the reading the
\* source returns: history, rollups and alert registry after it.
Sample(i, loss, rate) ==
    LET session == active_sessions[i]
        patient_id == session.patient_id
        reading == BloodLossReading(patient_id, now, loss, rate)
        history == Append(readings_history[patient_id], reading)
        current_level == classify_blood_loss(loss)
        previous_readings == SubSeq(history, 1, Len(history) - 1)
    IN  [reading |-> reading,
         history |-> history,
         session |-> [session EXCEPT
                         !.total_readings = @ + 1,
                         !.max_blood_loss_ml = Max(@, loss),
                         !.max_hemorrhage_level =
                             IF ValueGreater(current_level, @)
                             THEN current_level ELSE @],
         alert |-> should_trigger_alert(reading, previous_readings, now)]

SampleSession(i, loss, rate) ==
    LET sampled == Sample(i, loss, rate)
        alert == sampled.alert
    IN  /\ readings_history' =
              [readings_history EXCEPT ![sampled.reading.patient_id] = sampled.history]
        /\ active_sessions' = [active_sessions EXCEPT ![i] = sampled.session]
        /\ IF alert # None
           THEN /\ active_alerts' = DictPut(active_alerts, alert.alert_id, alert)
                /\ json_dumps_raises(Event("alert", alert))
           ELSE /\ UNCHANGED active_alerts
                /\ json_dumps_raises(Event("reading", sampled.reading))

\* One pass of the while loop, from `try` to the next asyncio.sleep.  The for
\* loop skips the sessions that are stopped or have no reading.  At the first
\* session it gets a reading for, json.dumps of the event to broadcast raises:
\* the exception leaves the for loop, the handler logs it and sleeps 5 s.
\* With no such session the for loop ends and the task sleeps 30 s.  There is
\* no await between `try` and the sleep, so the pass is one step.
MonitoringCycle ==
    /\ loop.pc = "run"
    /\ IF Sampleable = {}
       THEN /\ loop' = [pc |-> "sleep", session_id |-> NoSession, elapsed |-> FALSE]
            /\ UNCHANGED <<readings_history, active_sessions, active_alerts>>
       ELSE LET i == CHOOSE j \in Sampleable : \A k \in Sampleable : j <= k
            IN  /\ TotalReadings < MaxReadings
                /\ \E input \in ReadingInputs : SampleSession(i, input[1], input[2])
                /\ loop' = [pc |-> "backoff",
                            session_id |-> active_sessions[i].session_id,
                            elapsed |-> FALSE]
    /\ UNCHANGED <<now, source_ready, hubvars, response, call>>

\* asyncio.sleep(30) or asyncio.sleep(5) returns: the clock has moved on since
\* the sleep began.
Wake ==
    /\ loop.pc \in {"sleep", "backoff"}
    /\ loop.elapsed
    /\ loop' = [pc |-> "run", session_id |-> NoSession, elapsed |-> FALSE]
    /\ UNCHANGED <<now, readings_history, active_sessions, source_ready,
                   active_alerts, hubvars, response, call>>

\* The reading source starts or stops returning readings
\* (_get_hardware_reading returns None on a hardware error).
SourceChange ==
    /\ source_ready' = ~source_ready
    /\ UNCHANGED <<now, readings_history, active_sessions, loop, active_alerts,
                   hubvars, response, call>>

\* A second passes; a sleep of the monitoring task (5 s or 30 s, whole
\* seconds) that was under way has then lasted into a later second.
Tick ==
    /\ now < MaxTime
    /\ now' = now + 1
    /\ loop' = IF loop.pc \in {"sleep", "backoff"}
               THEN [loop EXCEPT !.elapsed = TRUE] ELSE loop
    /\ UNCHANGED <<readings_history, active_sessions, source_ready, active_alerts,
                   hubvars, response, call>>

(***************************************************************************)
(* The state after construction: MonitoringState(), ConnectionManager(),   *)
(* the monitoring task created at startup and about to run its first pass. *)
(***************************************************************************)
NoCall == [op |-> "none"]

InitSystem ==
    /\ now = 0
    /\ readings_history = [p \in Patients |-> <<>>]
    /\ active_sessions = <<>>
    /\ active_alerts = <<>>
    /\ source_ready = TRUE
    /\ loop = [pc |-> "run", session_id |-> NoSession, elapsed |-> FALSE]
    /\ active_connections = <<>>
    /\ accepted = {}
    /\ broken = {}
    /\ tasks = <<>>
    /\ delivered = [ws \in Sockets |-> <<>>]
    /\ response = Response("none", <<>>, Pending)

Init == InitSystem /\ call = NoCall

(***************************************************************************)
(* Spec: the monitoring core (requests, sessions, the sampling loop, the   *)
(* alert registry) with no WebSocket client connected.                     *)
(***************************************************************************)
\* The responses are not recorded here.
SubmitReading ==
    \E p \in PatientInputs, input \in ReadingInputs, status \in StatusCodes :
        AddReading(p, input[1], input[2], status) /\ UNCHANGED response

StartSession ==
    \E p \in PatientInputs, status \in StatusCodes :
        StartMonitoring(p, status) /\ UNCHANGED response

StopSession ==
    \E sid \in SessionIdInputs, status \in StatusCodes :
        StopMonitoring(sid, status) /\ UNCHANGED response

Next ==
    \/ SubmitReading
    \/ StartSession
    \/ StopSession
    \/ MonitoringCycle
    \/ Wake
    \/ SourceChange
    \/ Tick

Spec == Init /\ [][Next]_vars

(***************************************************************************)
(* Properties of the monitoring core (Spec).                               *)
(***************************************************************************)
\* A reading has been appended to patient p's history in this step.
Appended(p) == Len(readings_history'[p]) = Len(readings_history[p]) + 1

AppendedReading(p) == readings_history'[p][Len(readings_history'[p])]

\* The alert severity of reading r after previous readings prev: an emergency
\* when the last three prior readings show a rise of more than 225 mL, else
\* the assessment of the rate.
FinalSeverity(r, prev) ==
    IF Len(prev) >= 3 /\ r.blood_loss_ml - prev[Len(prev) - 2].blood_loss_ml > 225
    THEN "emergency"
    ELSE assess_bleeding_rate(r.rate_ml_per_min, classify_blood_loss(r.blood_loss_ml))

AlertExpected(r, prev) ==
    \/ classify_blood_loss(r.blood_loss_ml) # "normal"
    \/ FinalSeverity(r, prev) \in {"critical", "emergency"}

\* C4: a reading, submitted or sampled, raises an alert if and only if its
\* level is not normal or its final alert severity is critical or emergency;
\* the alert then stored carries that severity, and a normal-level reading of
\* severity info or warning leaves the alert registry unchanged.
C4_AlertIffSevere ==
    [][\A p \in Patients :
          Appended(p) =>
              LET r == AppendedReading(p)
                  prev == readings_history[p]
                  id == AlertId(p, now)
              IN  IF AlertExpected(r, prev)
                  THEN /\ id \in DOMAIN active_alerts'
                       /\ active_alerts'[id].alert_type = FinalSeverity(r, prev)
                       /\ active_alerts'[id].blood_loss_ml = r.blood_loss_ml
                       /\ active_alerts'[id].patient_id = p
                  ELSE active_alerts' = active_alerts]_vars

\* A normal-level reading at a warning rate has raised nothing, and a later
\* normal-level reading at an emergency rate has raised the only alert.
C4_Witness ==
    \E p \in Patients :
        /\ Len(readings_history[p]) = 2
        /\ readings_history[p][1].blood_loss_ml = 50
        /\ readings_history[p][1].rate_ml_per_min = 15
        /\ readings_history[p][2].blood_loss_ml = 50
        /\ readings_history[p][2].rate_ml_per_min = 60
        /\ DOMAIN active_alerts = {AlertId(p, 1)}
        /\ active_alerts[AlertId(p, 1)].hemorrhage_level = "normal"
        /\ active_alerts[AlertId(p, 1)].alert_type = "emergency"

\* C5: every raised alert gets an alert_id that no stored alert has: raising an
\* alert never overwrites an entry of the registry.
C5_AlertIdsNeverCollide ==
    [][\A p \in Patients :
          (Appended(p) /\ AlertExpected(AppendedReading(p), readings_history[p]))
              => AlertId(p, now) \notin DOMAIN active_alerts]_vars

\* C8: in a sampling cycle in which the processing of one session fails, every
\* session that is active (and has a reading to acquire) is still sampled.
C8_FailureDoesNotAbortCycle ==
    [][(loop.pc = "run" /\ loop'.pc = "backoff") =>
          \A i \in 1..Len(active_sessions) :
              (active_sessions[i].is_active /\ source_ready) =>
                  active_sessions'[i].total_readings
                      = active_sessions[i].total_readings + 1]_vars

\* C10: a stopped session stays stopped, and its rollups no longer change.
C10_StoppedIsTerminal ==
    [][\A i \in 1..Len(active_sessions) :
          ~active_sessions[i].is_active =>
              /\ i <= Len(active_sessions')
              /\ active_sessions'[i].session_id = active_sessions[i].session_id
              /\ ~active_sessions'[i].is_active
              /\ active_sessions'[i].total_readings = active_sessions[i].total_readings
              /\ active_sessions'[i].max_blood_loss_ml
                    = active_sessions[i].max_blood_loss_ml
              /\ active_sessions'[i].max_hemorrhage_level
                    = active_sessions[i].max_hemorrhage_level]_vars

(***************************************************************************)
(* AlertSpec: the readings and the alerts they raise.  Readings are        *)
(* submitted and sampled; no session is stopped and the reading source     *)
(* always returns a reading.                                               *)
(***************************************************************************)
AlertNext ==
    \/ SubmitReading
    \/ StartSession
    \/ MonitoringCycle
    \/ Wake
    \/ Tick

AlertSpec == Init /\ [][AlertNext]_vars

(***************************************************************************)
(* HubSpec: the alert acknowledgement and the WebSocket clients.  Alerts   *)
(* come from submitted readings; the responses to the acknowledge requests *)
(* are recorded.                                                           *)
(***************************************************************************)
\* A reading of moderate level is submitted: it raises an alert.
SubmitAlertingReading ==
    \E p \in Patients, status \in StatusCodes :
        AddReading(p, 300, 0, status) /\ UNCHANGED response

Acknowledge ==
    \E alert_id \in AlertIdInputs, status \in StatusCodes \cup {Pending} :
        /\ AcknowledgeAlert(alert_id, status)
        /\ Answer("acknowledge_alert", alert_id, status)

\* A suspended broadcast goes on; when it ends, its handler returns.
Resume ==
    \E k \in 1..Len(tasks), status \in StatusCodes \cup {Pending} :
        /\ BroadcastResume(k, status)
        /\ Answer(tasks[k].op, tasks[k].arg, status)

\* The clients of HubSpec.
Clients == {"ws1", "ws2"}

ClientConnects == \E ws \in Clients : Connect(ws)

ClientBreaks == \E ws \in Clients : Break(ws)

ClientDisconnects == \E ws \in Clients : Disconnect(ws)

HubNext ==
    \/ SubmitAlertingReading
    \/ Acknowledge
    \/ Resume
    \/ ClientConnects
    \/ ClientBreaks
    \/ ClientDisconnects

HubSpec == Init /\ [][HubNext]_vars

(***************************************************************************)
(* Properties of the alert acknowledgement (HubSpec).                      *)
(***************************************************************************)
AckEvent(alert_id) == Event("alert_acknowledged", [alert_id |-> alert_id])

\* The alert_acknowledged event of alert_id is being broadcast or has been
\* delivered to a client.
AckBroadcast(alert_id) ==
    \/ \E k \in 1..Len(tasks) : tasks[k].message = AckEvent(alert_id)
    \/ \E ws \in Sockets : \E n \in 1..Len(delivered[ws]) :
           delivered[ws][n] = AckEvent(alert_id)

\* C6: acknowledge_alert of an alert_id that is not in the registry answers
\* NotFound (404) and nothing else; a NotFound answer leaves the whole state as
\* it was, and no alert_acknowledged event of an unknown alert_id is broadcast.
C6_UnknownAlertNotFound ==
    [][\A alert_id \in AlertIdInputs :
          /\ (/\ response' # response
              /\ response' = Response("acknowledge_alert", alert_id, 404))
                 => /\ alert_id \notin DOMAIN active_alerts
                    /\ UNCHANGED <<now, monitorvars, active_alerts, hubvars>>
          /\ alert_id \notin DOMAIN active_alerts'
                 => /\ response'.op = "acknowledge_alert" /\ response'.arg = alert_id
                          => response'.status = 404
                    /\ ~AckBroadcast(alert_id)']_vars

\* An unknown alert_id has been answered NotFound while an alert is stored and
\* a client is connected, and nothing is being broadcast.
C6_Witness ==
    \E alert_id \in AlertIdInputs :
        /\ alert_id \notin DOMAIN active_alerts
        /\ response = Response("acknowledge_alert", alert_id, 404)
        /\ active_alerts # <<>>
        /\ active_connections # <<>>
        /\ tasks = <<>>

\* The step in which acknowledge_alert(alert_id) runs up to its broadcast: the
\* broadcast is suspended in a send, or it ended at once with an answer.
AckStep(alert_id) ==
    \/ /\ Len(tasks') = Len(tasks) + 1
       /\ tasks'[Len(tasks')].message = AckEvent(alert_id)
    \/ /\ tasks' = tasks
       /\ response' # response
       /\ response'.op = "acknowledge_alert"
       /\ response'.arg = alert_id

\* C7: acknowledging an alert that is already acknowledged leaves the registry
\* as it is, the flag true, and is answered with success (200).
C7_AcknowledgeIdempotent ==
    [][\A alert_id \in DOMAIN active_alerts :
          active_alerts[alert_id].acknowledged =>
              /\ AckStep(alert_id) =>
                    /\ active_alerts' = active_alerts
                    /\ active_alerts'[alert_id].acknowledged
              /\ (/\ response' # response
                  /\ response'.op = "acknowledge_alert"
                  /\ response'.arg = alert_id) => response'.status = 200]_vars

\* An alert has been acknowledged twice with success: a client has received
\* its alert_acknowledged event twice.
C7_Witness ==
    \E alert_id \in DOMAIN active_alerts, ws \in Sockets :
        /\ active_alerts[alert_id].acknowledged
        /\ delivered[ws] = <<AckEvent(alert_id), AckEvent(alert_id)>>
        /\ response = Response("acknowledge_alert", alert_id, 200)
        /\ tasks = <<>>

(***************************************************************************)
(* LiveSpec: the sampling loop running for ever.  What grows without bound *)
(* is folded: a history keeps the last TREND_READINGS readings, which are  *)
(* all that should_trigger_alert reads of it; total_readings stops         *)
(* counting at MaxReadings; the clock stays at MaxTime once it is there.   *)
(* The requests arrive before the clock is at MaxTime, and the source      *)
(* always returns the same reading, of normal level, which raises nothing. *)
(* The loop is scheduled fairly: a pass that can run runs, a sleep ends,   *)
(* and time passes.                                                        *)
(***************************************************************************)
LiveReadingInputs == {<<50, 15>>}

Window(history) ==
    IF Len(history) <= TREND_READINGS THEN history
    ELSE SubSeq(history, Len(history) - TREND_READINGS + 1, Len(history))

LiveStartSession == now < MaxTime /\ StartSession

LiveStopSession == now < MaxTime /\ StopSession

\* MonitoringCycle, folded.
LiveCycle ==
    /\ loop.pc = "run"
    /\ IF Sampleable = {}
       THEN /\ loop' = [pc |-> "sleep", session_id |-> NoSession, elapsed |-> FALSE]
            /\ UNCHANGED <<readings_history, active_sessions, active_alerts>>
       ELSE LET i == CHOOSE j \in Sampleable : \A k \in Sampleable : j <= k
            IN  /\ \E input \in LiveReadingInputs :
                      LET sampled == Sample(i, input[1], input[2])
                      IN  /\ sampled.alert = None
                          /\ json_dumps_raises(Event("reading", sampled.reading))
                          /\ readings_history' =
                                [readings_history EXCEPT
                                    ![sampled.reading.patient_id] = Window(sampled.history)]
                          /\ active_sessions' =
                                [active_sessions EXCEPT ![i] =
                                    [sampled.session EXCEPT
                                        !.total_readings = Min(@, MaxReadings)]]
                          /\ UNCHANGED active_alerts
                /\ loop' = [pc |-> "backoff",
                            session_id |-> active_sessions[i].session_id,
                            elapsed |-> FALSE]
    /\ UNCHANGED <<now, source_ready, hubvars, response, call>>

\* Tick, folded.
LiveTick ==
    /\ now' = Min(now + 1, MaxTime)
    /\ loop' = IF loop.pc \in {"sleep", "backoff"}
               THEN [loop EXCEPT !.elapsed = TRUE] ELSE loop
    /\ UNCHANGED <<readings_history, active_sessions, source_ready, active_alerts,
                   hubvars, response, call>>

LiveNext ==
    \/ LiveStartSession
    \/ LiveStopSession
    \/ LiveCycle
    \/ Wake
    \/ LiveTick

LiveSpec ==
    /\ Init
    /\ [][LiveNext]_vars
    /\ WF_vars(LiveCycle)
    /\ WF_vars(Wake)
    /\ WF_vars(LiveTick)

SessionActive(sid) ==
    \E i \in 1..Len(active_sessions) :
        active_sessions[i].session_id = sid /\ active_sessions[i].is_active

\* The pass that has just run acquired a reading for session sid.
SessionSampled(sid) == loop.pc = "backoff" /\ loop.session_id = sid

\* C9: the loop begins a pass again and again, and a session that is active is
\* sampled at some later time unless it stops being active.
C9_LoopSamplesEveryActiveSession ==
    /\ []<>(loop.pc = "run")
    /\ \A sid \in SessionIdInputs :
          SessionActive(sid) ~> (SessionSampled(sid) \/ ~SessionActive(sid))

(***************************************************************************)
(* SourceSpec: the sampling loop and a reading source that may return no   *)
(* reading.  Sessions are started; nothing else is requested.              *)
(***************************************************************************)
SourceNext ==
    \/ StartSession
    \/ SourceChange
    \/ MonitoringCycle
    \/ Wake
    \/ Tick

SourceSpec == Init /\ [][SourceNext]_vars

\* C11: a pass in which the source returns no reading changes no history, no
\* session, no alert and no broadcast, and ends in the 30 s sleep; until the
\* next pass begins no session is sampled.
C11_NoReadingNoEffect ==
    [][/\ (loop.pc = "run" /\ loop'.pc # "run" /\ ~source_ready)
              => /\ loop'.pc = "sleep"
                 /\ UNCHANGED <<readings_history, active_sessions, active_alerts,
                                hubvars>>
       /\ loop.pc # "run"
              => \A i \in 1..Len(active_sessions) :
                    /\ i <= Len(active_sessions')
                    /\ active_sessions'[i].total_readings
                          <= active_sessions[i].total_readings]_vars

\* A session that was sampled before is still active, and the last pass,
\* getting no reading, has skipped it.
C11_Witness ==
    /\ loop.pc = "sleep"
    /\ ~source_ready
    /\ \E i \in 1..Len(active_sessions) :
          /\ active_sessions[i].is_active
          /\ active_sessions[i].total_readings = 1
          /\ Len(readings_history[active_sessions[i].patient_id]) = 1

(***************************************************************************)
(* RetentionSpec: readings submitted and sampled more than 24 hours apart. *)
(***************************************************************************)
\* More than 24 hours pass at once; a sleep that was under way has ended.
DayPasses ==
    /\ now <= MaxTime
    /\ now' = now + RETENTION_SECONDS + 1
    /\ loop' = IF loop.pc \in {"sleep", "backoff"}
               THEN [loop EXCEPT !.elapsed = TRUE] ELSE loop
    /\ UNCHANGED <<readings_history, active_sessions, source_ready, active_alerts,
                   hubvars, response, call>>

RetentionNext ==
    \/ SubmitReading
    \/ StartSession
    \/ MonitoringCycle
    \/ Wake
    \/ Tick
    \/ DayPasses

RetentionSpec == Init /\ [][RetentionNext]_vars

\* C12: after a step that changes a patient's history, the history holds no
\* reading older than 24 hours and still holds every reading it held before
\* that is not older than 24 hours.
C12_RetentionBound ==
    [][\A p \in Patients :
          readings_history'[p] # readings_history[p] =>
              /\ \A n \in 1..Len(readings_history'[p]) :
                    readings_history'[p][n].timestamp >= now - RETENTION_SECONDS
              /\ \A n \in 1..Len(readings_history[p]) :
                    readings_history[p][n].timestamp >= now - RETENTION_SECONDS
                        => \E m \in 1..Len(readings_history'[p]) :
                              readings_history'[p][m] = readings_history[p][n]]_vars

(***************************************************************************)
(* BroadcastSpec: one broadcast at a time to up to three clients.  Clients *)
(* connect and are disconnected between broadcasts; a transport may fail   *)
(* at any time.  One alert is raised, and it is acknowledged repeatedly.   *)
(***************************************************************************)
RaiseFirstAlert == active_alerts = <<>> /\ SubmitAlertingReading

QuietAcknowledge ==
    /\ tasks = <<>>
    /\ \E alert_id \in DOMAIN active_alerts, status \in StatusCodes \cup {Pending} :
          /\ AcknowledgeAlert(alert_id, status)
          /\ Answer("acknowledge_alert", alert_id, status)

QuietConnects == tasks = <<>> /\ \E ws \in Sockets : Connect(ws)

TransportBreaks == \E ws \in Sockets : Break(ws)

QuietDisconnects == tasks = <<>> /\ \E ws \in Sockets : Disconnect(ws)

BroadcastNext ==
    \/ RaiseFirstAlert
    \/ QuietAcknowledge
    \/ Resume
    \/ QuietConnects
    \/ TransportBreaks
    \/ QuietDisconnects

BroadcastSpec == Init /\ [][BroadcastNext]_vars

InList(list, x) == \E i \in 1..Len(list) : list[i] = x

\* C13: each step of a broadcast sends the message to the next connection of
\* the list: the connection gets it unless its send fails, and nobody else
\* gets anything; after the last connection the broadcast ends with success,
\* the connections whose send failed are out of the list, the others are all
\* in it and have the message as the last thing they received.
C13_BroadcastReachesEveryObserver ==
    [][(Len(tasks) = 1 /\ tasks' # tasks) =>
          LET task == tasks[1]
              ws == task.connection
              failed == ws \in broken
              failures == {task.disconnected[n] : n \in 1..Len(task.disconnected)}
                              \cup (IF failed THEN {ws} ELSE {})
          IN  /\ task.index <= Len(active_connections)
              /\ ws = active_connections[task.index]
              /\ delivered' = IF failed THEN delivered
                              ELSE [delivered EXCEPT ![ws] = Append(@, task.message)]
              /\ IF task.index < Len(active_connections)
                 THEN /\ Len(tasks') = 1
                      /\ tasks'[1].message = task.message
                      /\ tasks'[1].index = task.index + 1
                      /\ UNCHANGED active_connections
                 ELSE /\ tasks' = <<>>
                      /\ response' = Response(task.op, task.arg, 200)
                      /\ \A c \in Sockets :
                            InList(active_connections', c)
                                <=> (InList(active_connections, c) /\ c \notin failures)
                      /\ \A c \in Sockets :
                            InList(active_connections', c) =>
                                /\ delivered'[c] # <<>>
                                /\ delivered'[c][Len(delivered'[c])] = task.message]_vars

\* Three clients had connected and one transport failed: two broadcasts have
\* ended, the two other clients have received both messages, the failed one
\* none, and it is out of the list.
C13_Witness ==
    /\ accepted = Sockets
    /\ tasks = <<>>
    /\ Len(active_connections) = 2
    /\ \E bad \in broken :
          /\ ~InList(active_connections, bad)
          /\ delivered[bad] = <<>>
          /\ \A c \in Sockets \ {bad} :
                /\ InList(active_connections, c)
                /\ Len(delivered[c]) = 2

(***************************************************************************)
(* Properties of the WebSocket clients (HubSpec).                          *)
(***************************************************************************)
\* C14: a connected client has received something, and the first thing it
\* received is the connection_established event.
C14_ConnectionEstablishedFirst ==
    \A ws \in Sockets :
        InList(active_connections, ws) =>
            /\ delivered[ws] # <<>>
            /\ delivered[ws][1].type = "connection_established"

\* C18: a stored alert stays stored with the same patient, severity, level,
\* loss and message, and an acknowledged alert stays acknowledged.
C18_AlertsPermanent ==
    [][\A alert_id \in DOMAIN active_alerts :
          /\ alert_id \in DOMAIN active_alerts'
          /\ active_alerts'[alert_id].patient_id = active_alerts[alert_id].patient_id
          /\ active_alerts'[alert_id].alert_type = active_alerts[alert_id].alert_type
          /\ active_alerts'[alert_id].hemorrhage_level
                = active_alerts[alert_id].hemorrhage_level
          /\ active_alerts'[alert_id].blood_loss_ml
                = active_alerts[alert_id].blood_loss_ml
          /\ active_alerts'[alert_id].message = active_alerts[alert_id].message
          /\ active_alerts[alert_id].acknowledged
                => active_alerts'[alert_id].acknowledged]_vars

(***************************************************************************)
(* StreamSpec: the sampling loop with WebSocket clients listening.  The    *)
(* clients connect before the first session is started and stay.           *)
(***************************************************************************)
EarlyConnects == active_sessions = <<>> /\ ClientConnects

StreamNext ==
    \/ EarlyConnects
    \/ StartSession
    \/ StopSession
    \/ MonitoringCycle
    \/ Wake
    \/ Tick

StreamSpec == Init /\ [][StreamNext]_vars

\* The event is being broadcast or has been delivered to a client.
Published(event) ==
    \/ \E k \in 1..Len(tasks) : tasks[k].message = event
    \/ \E ws \in Sockets : \E n \in 1..Len(delivered[ws]) : delivered[ws][n] = event

LastReading(p) == readings_history[p][Len(readings_history[p])]

\* C15: when the loop acquires a reading for a session while a client is
\* connected, the reading event of that reading is published in the same pass.
C15_ReadingEventPublished ==
    [][\A i \in 1..Len(active_sessions) :
          (/\ i <= Len(active_sessions')
           /\ active_sessions'[i].session_id = active_sessions[i].session_id
           /\ active_sessions'[i].total_readings
                 = active_sessions[i].total_readings + 1
           /\ active_connections # <<>>)
              => Published(Event("reading",
                                 LastReading(active_sessions[i].patient_id)))']_vars

RequestPatients == {"patient_001", "patient_999"}

\* The reading submitted is of moderate level: it raises an alert.
RequestReading ==
    \E p \in RequestPatients, status \in StatusCodes :
        /\ AddReading(p, 300, 0, status)
        /\ Answer("add_reading", p, status)

RequestStart ==
    \E p \in RequestPatients, status \in StatusCodes :
        /\ StartMonitoring(p, status)
        /\ Answer("start_monitoring", p, status)

RequestStop ==
    \E sid \in SessionIdInputs, status \in StatusCodes :
        /\ StopMonitoring(sid, status)
        /\ Answer("stop_monitoring", sid, status)

RequestNext ==
    \/ RequestReading
    \/ RequestStart
    \/ RequestStop
    \/ Tick

RequestSpec == Init /\ [][RequestNext]_vars

\* The subject of the last response is not known to the handler that answered.
UnknownSubject ==
    \/ response.op \in {"add_reading", "start_monitoring"} /\ response.arg \notin Patients
    \/ response.op = "stop_monitoring" /\ response.arg \notin SessionKeys

\* C16: add_reading and start_monitoring for an unknown patient and
\* stop_monitoring for an unknown session are answered NotFound (404) and
\* nothing else; a NotFound answer leaves the state as it was; no reading, no
\* session and no alert of an unknown patient is ever stored.
C16_UnknownSubjectNotFound ==
    [][/\ (/\ response' # response
           /\ response'.op \in {"add_reading", "start_monitoring", "stop_monitoring"}
           /\ response'.status = 404)
              => /\ UNCHANGED <<now, monitorvars, active_alerts, hubvars>>
                 /\ UnknownSubject'
       /\ UnknownSubject' => response'.status = 404
       /\ DOMAIN readings_history' = Patients
       /\ \A i \in 1..Len(active_sessions') :
             active_sessions'[i].patient_id \in Patients
       /\ \A alert_id \in DOMAIN active_alerts' :
             active_alerts'[alert_id].patient_id \in Patients]_vars

\* A stop request for a session that does not exist has been answered NotFound
\* while a session and a reading are stored.
C16_Witness ==
    /\ response.op = "stop_monitoring"
    /\ response.arg \notin SessionKeys
    /\ response.status = 404
    /\ active_sessions # <<>>
    /\ TotalReadings > 0

(***************************************************************************)
(* Maximum severity of a session                                           *)
(***************************************************************************)
\* The place of a level in the order Normal < Minor < Moderate < Major <
\* Critical in which HemorrhageLevel is declared.
LevelRank(level) ==
    CASE level = "normal" -> 1
      [] level = "minor" -> 2
      [] level = "moderate" -> 3
      [] level = "major" -> 4
      [] level = "critical" -> 5

\* C17: the max_hemorrhage_level of a session is the highest level, in the
\* declared order, of the readings sampled for it. The loop step that samples a
\* session leaves the level at the higher of the level before and the level of
\* the new reading, and a session starts at normal.
C17_MaxLevelIsHighestSampled ==
    [][\A i \in 1..Len(active_sessions) :
          \A p \in Patients :
              (/\ i <= Len(active_sessions')
               /\ active_sessions[i].patient_id = p
               /\ active_sessions'[i].session_id = active_sessions[i].session_id
               /\ active_sessions'[i].total_readings
                      = active_sessions[i].total_readings + 1
               /\ Appended(p))
              => LET before == active_sessions[i].max_hemorrhage_level
                     sampled == classify_blood_loss(AppendedReading(p).blood_loss_ml)
                 IN  active_sessions'[i].max_hemorrhage_level
                         = IF LevelRank(sampled) > LevelRank(before)
                           THEN sampled ELSE before]_vars

(***************************************************************************)
(* Attach and detach during a broadcast (HubSpec)                          *)
(***************************************************************************)
\* C20: a client that is attached during the whole of a broadcast and whose
\* transport works receives the message, whatever happens to the other clients
\* while the broadcast is suspended. Broadcasts come one at a time here, so a
\* client that has received another message before was attached when this
\* broadcast began; a client attaches once and is detached only after its
\* transport has failed.
C20_AttachDetachDuringBroadcastSafe ==
    [][(Len(tasks) = 1 /\ tasks' = <<>>) =>
          \A ws \in accepted \ broken :
              (\E n \in 1..Len(delivered[ws]) :
                   delivered[ws][n] # tasks[1].message)
                  => InList(delivered'[ws], tasks[1].message)]_vars

(***************************************************************************)
(* Session rollups                                                         *)
(***************************************************************************)
\* C23: the rollups of a session count the readings sampled for it: while the
\* session is stored under its session_id, its total_readings and its
\* max_blood_loss_ml never decrease.
C23_RollupsNeverDecrease ==
    [][\A i \in 1..Len(active_sessions) :
          (/\ i <= Len(active_sessions')
           /\ active_sessions'[i].session_id = active_sessions[i].session_id)
          => /\ active_sessions'[i].total_readings
                    >= active_sessions[i].total_readings
             /\ active_sessions'[i].max_blood_loss_ml
                    >= active_sessions[i].max_blood_loss_ml]_vars

(***************************************************************************)
(* Sessions are never replaced                                             *)
(***************************************************************************)
\* C21: a successful start_monitoring adds one session whose session_id no
\* existing session has, and leaves the existing sessions as they are.
C21_StartAddsNewSession ==
    [][\A p \in Patients :
          StartMonitoring(p, 200) =>
              /\ SessionId(p, now) \notin SessionKeys
              /\ Len(active_sessions') = Len(active_sessions) + 1
              /\ SubSeq(active_sessions', 1, Len(active_sessions))
                     = active_sessions]_vars

(***************************************************************************)
(* LedgerSpec: manual submissions and sampling cycles for one patient      *)
(* whose history already holds three readings, all of normal level and     *)
(* rate, taken before the clock started: they raised no alert.             *)
(***************************************************************************)
LedgerPatient == "patient_001"

EarlierReadings ==
    <<BloodLossReading(LedgerPatient, -1, 40, 0),
      BloodLossReading(LedgerPatient, -1, 100, 0),
      BloodLossReading(LedgerPatient, -1, 100, 0)>>

LedgerInit ==
    /\ now = 0
    /\ readings_history =
           [p \in Patients |-> IF p = LedgerPatient THEN EarlierReadings ELSE <<>>]
    /\ active_sessions = <<>>
    /\ active_alerts = <<>>
    /\ source_ready = TRUE
    /\ loop = [pc |-> "run", session_id |-> NoSession, elapsed |-> FALSE]
    /\ active_connections = <<>>
    /\ accepted = {}
    /\ broken = {}
    /\ tasks = <<>>
    /\ delivered = [ws \in Sockets |-> <<>>]
    /\ response = Response("none", <<>>, Pending)
    /\ call = NoCall

LedgerSubmit ==
    \E input \in ReadingInputs, status \in StatusCodes :
        /\ AddReading(LedgerPatient, input[1], input[2], status)
        /\ Answer("add_reading", LedgerPatient, status)

LedgerStart ==
    \E status \in StatusCodes :
        StartMonitoring(LedgerPatient, status) /\ UNCHANGED response

LedgerNext ==
    \/ LedgerSubmit
    \/ LedgerStart
    \/ MonitoringCycle
    \/ Wake
    \/ Tick

LedgerSpec == LedgerInit /\ [][LedgerNext]_vars

\* C24: manual submissions and sampling cycles of one patient lose and
\* duplicate no reading: a history only grows, by one reading at its end at a
\* time, stamped with the time of its arrival; a submission that is answered
\* and a cycle that samples a session have appended their reading; and the
\* alert of the reading comes from the classification against exactly the
\* readings that were in the history before it.
C24_NoReadingLostOrDuplicated ==
    [][\A p \in Patients :
          LET before == readings_history[p]
              after == readings_history'[p]
          IN  /\ \/ after = before
                 \/ /\ Appended(p)
                    /\ SubSeq(after, 1, Len(before)) = before
                    /\ AppendedReading(p).patient_id = p
                    /\ AppendedReading(p).timestamp = now
              /\ (response' # response /\ response'.op = "add_reading"
                      /\ response'.arg = p)
                    => Appended(p)
              /\ (loop.pc = "run" /\ loop'.pc = "backoff"
                      /\ \E i \in 1..Len(active_sessions) :
                             /\ active_sessions[i].session_id = loop'.session_id
                             /\ active_sessions[i].patient_id = p)
                    => Appended(p)
              /\ Appended(p) =>
                    LET r == AppendedReading(p)
                        id == AlertId(p, now)
                    IN  IF AlertExpected(r, before)
                        THEN /\ id \in DOMAIN active_alerts'
                             /\ active_alerts'[id].alert_type = FinalSeverity(r, before)
                             /\ active_alerts'[id].hemorrhage_level
                                    = classify_blood_loss(r.blood_loss_ml)
                             /\ active_alerts'[id].timestamp = r.timestamp
                        ELSE active_alerts' = active_alerts]_vars

\* A sampled reading and a submitted one have both gone into the history, after
\* the three earlier ones, and the reading of 300 mL has raised an emergency
\* because of the rise since the earlier readings.
C24_Witness ==
    /\ Len(readings_history[LedgerPatient]) = 5
    /\ \E i \in 1..Len(active_sessions) : active_sessions[i].total_readings = 1
    /\ response.op = "add_reading"
    /\ \E id \in DOMAIN active_alerts :
           /\ active_alerts[id].blood_loss_ml = 300
           /\ active_alerts[id].alert_type = "emergency"

(***************************************************************************)
(* ClassifierSpec: the classifier's methods called directly, on inputs     *)
(* drawn from bounded sets.                                                *)
(***************************************************************************)
LossSamples == {50, 100, 240, 325, 326, 400, 1001}
RateSamples == {0, 15, 25, 60}
PrevLossSamples == {100, 120, 140}
PrevTimeSamples == {0, 1}
PrevReadings ==
    {BloodLossReading("patient_001", ts, loss, 0) :
        ts \in PrevTimeSamples, loss \in PrevLossSamples}
PrevHistories == UNION {[1..n -> PrevReadings] : n \in 0..MaxPrev}

\* One call at a time: a method is called when the previous call has returned.
CallClassify ==
    /\ call = NoCall
    /\ \E loss \in 0..MaxLoss :
        call' = [op |-> "classify_blood_loss", blood_loss_ml |-> loss,
                 result |-> classify_blood_loss(loss)]
    /\ UNCHANGED sysvars

CallAssess ==
    /\ call = NoCall
    /\ \E rate \in 0..MaxRate, level \in HemorrhageLevel :
        call' = [op |-> "assess_bleeding_rate", rate_ml_per_min |-> rate,
                 current_level |-> level,
                 result |-> assess_bleeding_rate(rate, level)]
    /\ UNCHANGED sysvars

CallShouldTrigger ==
    /\ call = NoCall
    /\ \E loss \in LossSamples, rate \in RateSamples, prev \in PrevHistories :
        LET reading == BloodLossReading("patient_001", 2, loss, rate)
        IN  call' = [op |-> "should_trigger_alert", reading |-> reading,
                     previous_readings |-> prev,
                     result |-> should_trigger_alert(reading, prev, 2)]
    /\ UNCHANGED sysvars

CallReturn ==
    /\ call # NoCall
    /\ call' = NoCall
    /\ UNCHANGED sysvars

ClassifierNext == CallClassify \/ CallAssess \/ CallShouldTrigger \/ CallReturn

ClassifierSpec == Init /\ [][ClassifierNext]_vars

(***************************************************************************)
(* Properties of the classifier (ClassifierSpec).                          *)
(***************************************************************************)

\* C1: classify_blood_loss is a total threshold lookup with inclusive upper
\* bounds: normal iff loss <= 100, minor iff 100 < loss <= 250, moderate iff
\* 250 < loss <= 500, major iff 500 < loss <= 1000, critical iff loss > 1000.
C1_ClassifyInclusiveUpper ==
    call.op = "classify_blood_loss" =>
        LET loss == call.blood_loss_ml
            level == call.result
        IN  /\ level \in HemorrhageLevel
            /\ (level = "normal") <=> (loss <= 100)
            /\ (level = "minor") <=> (100 < loss /\ loss <= 250)
            /\ (level = "moderate") <=> (250 < loss /\ loss <= 500)
            /\ (level = "major") <=> (500 < loss /\ loss <= 1000)
            /\ (level = "critical") <=> (loss > 1000)

\* The boundary value 1000 has been classified, into the lower band.
C1_Witness ==
    /\ call.op = "classify_blood_loss"
    /\ call.blood_loss_ml = 1000
    /\ call.result = "major"

\* C2: assess_bleeding_rate returns emergency when rate > 50 whatever the level;
\* otherwise critical when rate > 20 and the level is moderate or major;
\* otherwise warning when rate > 10; otherwise info.
C2_AssessRate ==
    call.op = "assess_bleeding_rate" =>
        LET rate == call.rate_ml_per_min
            level == call.current_level
        IN  call.result =
                CASE rate > 50 -> "emergency"
                  [] rate <= 50 /\ rate > 20 /\ level \in {"moderate", "major"}
                        -> "critical"
                  [] rate <= 50 /\ rate > 20 /\ level \notin {"moderate", "major"}
                        -> "warning"
                  [] rate <= 20 /\ rate > 10 -> "warning"
                  [] rate <= 10 -> "info"

\* A rate in (20, 50] at level critical has been assessed, as a warning.
C2_Witness ==
    /\ call.op = "assess_bleeding_rate"
    /\ call.rate_ml_per_min = 30
    /\ call.current_level = "critical"
    /\ call.result = "warning"

C22_MessageByLevelOnly ==
    call.op = "should_trigger_alert" =>
        (call.result # None =>
            LET loss == call.reading.blood_loss_ml
                level == CASE loss <= 100 -> "normal"
                           [] 100 < loss /\ loss <= 250 -> "minor"
                           [] 250 < loss /\ loss <= 500 -> "moderate"
                           [] 500 < loss /\ loss <= 1000 -> "major"
                           [] loss > 1000 -> "critical"
            IN  /\ call.result.hemorrhage_level = level
                /\ call.result.message =
                       CASE level = "normal" -> "Normal postpartum bleeding"
                         [] level = "minor" ->
                                "Minor hemorrhage detected - monitor closely"
                         [] level = "moderate" ->
                                "Moderate hemorrhage - consider intervention"
                         [] level = "major" ->
                                "MAJOR HEMORRHAGE - immediate intervention required"
                         [] level = "critical" ->
                                "CRITICAL HEMORRHAGE - emergency response needed"
                /\ call.result.blood_loss_ml = loss
                /\ call.result.timestamp = call.reading.timestamp)

\* A moderate loss whose severity the escalation override has raised to
\* emergency: the alert carries the text of the moderate level.
C22_Witness ==
    /\ call.op = "should_trigger_alert"
    /\ call.reading.blood_loss_ml = 400
    /\ call.reading.rate_ml_per_min = 0
    /\ Len(call.previous_readings) >= 3
    /\ call.result # None
    /\ call.result.alert_type = "emergency"
    /\ call.result.message = "Moderate hemorrhage - consider intervention"

====
